---- MODULE Spec2Model ----
(***************************************************************************)
(* The browser tracker of open-observability: the Tracker, its Transport   *)
(* (packages/tracker/src/transport.ts) and the LCP / CLS / INP collectors, *)
(* driven by the page's event loop: public calls, timers, visibilitychange,*)
(* pagehide, history notifications and performance-observer deliveries.    *)
(*                                                                         *)
(* One action is one run-to-completion task of the event loop: a public    *)
(* call, one timer callback, or the dispatch of one DOM event to all the   *)
(* listeners registered for it, in registration order.                     *)
(* Time is in milliseconds and relative: a pending timer holds the time    *)
(* left until it is due, a queued record its age.  Timers are punctual:    *)
(* time does not pass while a timer that is due has not fired.             *)
(***************************************************************************)
EXTENDS Integers, Sequences, FiniteSets, TLC

\* ---------------------------------------------------------------- bounds
MaxRecords == 4        \* records enqueued in one behaviour
FlushTicks == 3        \* config.flushInterval, in steps of TimeStep
MaxBatchSize == 3      \* config.batchSize ranges over 1..MaxBatchSize
MaxNotifs == 2         \* history notifications in one behaviour
MaxPageShifts == 1     \* layout shifts delivered in one behaviour of the page
MaxShiftTime == 6000   \* latest start time of a layout shift given to the CLS collector
SpecialUpTo == 2       \* only the first SpecialUpTo of them may have recent input
                       \* or the start time of the one before
ShiftValue == 50       \* value of a layout shift, in thousandths
RateMargin == 2        \* rate is called with values this close to each ceiling
MaxAgentRecords == 2   \* records enqueued in one behaviour of SpecAgent

\* ------------------------------------------------------- program constants
RouteChangeDelay == 100   \* setTimeout(..., 100) in onRouteChange
MessageLimit == 1000      \* truncate(message, 1000) in setupErrorTracking
StackLimit == 2000        \* truncate(stack, 2000) in setupErrorTracking
EllipsisLen == 3          \* '...', which truncate appends
UnknownErrorLen == 13     \* 'Unknown error'
UnhandledLen == 27        \* 'Unhandled promise rejection'
DefaultBatchSize == 10    \* batchSize: 10 in the Tracker constructor
RequestLimit == 100       \* events.length > 100 in the ingestion endpoint
IngestMargin == 2         \* records tracked beyond RequestLimit
MaxFlagRecords == 3       \* records of a behaviour of SpecFlags
GapLimit == 1000          \* CLS: gap that closes a session window
SpanLimit == 5000         \* CLS: span that closes a session window

TimeStep == RouteChangeDelay            \* largest single advance of the clock
FlushInterval == FlushTicks * TimeStep   \* config.flushInterval
AgeCap == FlushInterval + TimeStep       \* ages are not counted beyond this

NoTimer == -1                            \* Transport.timer is null
Paths == {"/", "/a"}
BeaconResults == {"true", "false", "throw"}
FetchOutcomes == {"ok", "http_error", "rejected"}
Properties == {"plain", "cyclic"}   \* cyclic: what JSON.stringify throws on

\* The values of a flag of the configuration: the two booleans, and the
\* value undefined that an optional key may be given.
FlagValues == {"true", "false", "undefined"}

\* What `if (flag)` and `flag && ...` make of a flag
Truthy(v) == v = "true"

\* The defaults of the Tracker constructor
Defaults ==
  [autoPageViews |-> "true", autoWebVitals |-> "true", autoErrors |-> "true",
   respectDNT |-> "true", batchSize |-> DefaultBatchSize]

\* The Tracker constructor: { ...defaults, ...given }; a key present in
\* `given` replaces the default, whatever its value.
Construct(given) ==
  [k \in DOMAIN Defaults \cup DOMAIN given |->
     IF k \in DOMAIN given THEN given[k] ELSE Defaults[k]]

\* An endpoint, as far as `new URL` looks at it: absolute or not, its path,
\* its query parameters.
EmptyMap == [x \in {} |-> <<>>]

Endpoint == [absolute |-> TRUE, path |-> "/ingest", params |-> EmptyMap]

\* config.apiKey and config.headers, which the config may lack
ApiKey(cfg) == IF "apiKey" \in DOMAIN cfg THEN cfg.apiKey ELSE "undefined"
UserHeaders(cfg) == IF "headers" \in DOMAIN cfg THEN cfg.headers ELSE EmptyMap

\* What `if (this.config.apiKey)` makes of the key
KeySet(key) == key # "undefined" /\ key # ""

\* new URL(endpoint): throws on an endpoint that is not absolute; an empty
\* path is serialized as "/".
ParseURL(e) ==
  IF e.absolute
  THEN [valid |-> TRUE, path |-> IF e.path = "" THEN "/" ELSE e.path,
        params |-> e.params]
  ELSE [valid |-> FALSE, path |-> "", params |-> EmptyMap]

\* url.searchParams.set(k, v)
SetParam(params, k, v) ==
  [x \in DOMAIN params \cup {k} |-> IF x = k THEN v ELSE params[x]]

\* A variant of buildUrl that never adds the key.
BuildUrl_Plain(cfg) == ParseURL(cfg.endpoint)

\* Transport.buildUrl
BuildUrl(cfg) ==
  LET url == ParseURL(cfg.endpoint)
  IN IF url.valid /\ KeySet(ApiKey(cfg))
     THEN [url EXCEPT !.params = SetParam(@, "apikey", ApiKey(cfg))]
     ELSE url

\* sendViaFetch: the headers of the request. A header value is the tuple of
\* its words.
KeyHeaders(key) ==
  [x \in {"Authorization", "apikey"} |->
     IF x = "Authorization" THEN <<"Bearer", key>> ELSE <<key>>]

FetchHeaders(cfg) ==
  LET h0 == UserHeaders(cfg) @@ [x \in {"Content-Type"} |-> <<"application/json">>]
  IN IF KeySet(ApiKey(cfg)) THEN KeyHeaders(ApiKey(cfg)) @@ h0 ELSE h0

VARIABLES
  config,           \* Tracker.config (fixed after construction)
  dnt,              \* navigator.doNotTrack is '1' or 'yes'
  hasBeacon,        \* typeof navigator.sendBeacon === 'function'
  visibilityState,  \* document.visibilityState
  pathname,         \* window.location.pathname
  initialized,      \* Tracker.initialized
  installs,         \* how many times init has run its setup calls (each run adds
                    \* one set of listeners, observers and history hooks)
  lastPathname,     \* Tracker.lastPathname
  routeTimers,      \* pending setTimeout callbacks of onRouteChange, oldest first,
                    \* each with the time left until it is due
  queue,            \* Transport.queue
  timer,            \* Transport.timer: NoTimer, or the time left of the pending timeout
  escaped,          \* history: an exception left a task of the agent uncaught
  lcpValue,         \* collectLCP: lastValue
  inpMax,           \* collectINP: maxDuration
  cls,              \* collectCLS: clsValue, sessionValue, sessionEntries
  enqueued,         \* history: every record passed to Transport.enqueue, in call order
  sends,            \* history: every batch flush took out of the queue and
                    \* serialized, in order
  netCalls,         \* history: every delivery attempt (a run of sendViaBeacon or
                    \* sendViaFetch), with its batch, its path and its outcome
  notifs,           \* history: the path after each history notification
  shifts,           \* history: every layout-shift entry delivered to the CLS observer
  rated,            \* history: the last call of rate, with its result
  served,           \* history: the ingestion endpoint's answer to each request
  lcpSeen,          \* history: the start times of the LCP candidates observed, latest first
  vitalRows,        \* the web_vitals table: metric_value by metric_id (one site)
  inBrowser,        \* isBrowser(): window and document exist
  selection,        \* useAnalytics: the props <<siteId, timeRange>>
  data,             \* useAnalytics: the data state
  loading,          \* useAnalytics: the loading state
  error,            \* useAnalytics: the error state
  inflight,         \* fetchData calls awaiting their responses
  started,          \* number of fetchData calls so far
  lastCall          \* history: the task that ran last ("flush-again": a
                    \* Tracker.flush right after a Tracker.flush; "other": a
                    \* task whose identity no property needs)

vars == <<config, dnt, hasBeacon, visibilityState, pathname, initialized,
          installs, lastPathname, routeTimers, queue, timer, escaped, lcpValue,
          inpMax, cls, enqueued, sends, netCalls, notifs, shifts, rated, served,
          lcpSeen,
          vitalRows,
          inBrowser,
          selection,
          data,
          loading,
          error,
          inflight,
          started,
          lastCall>>

\* ---------------------------------------------------------------- helpers
Min(a, b) == IF a <= b THEN a ELSE b
\* A record as the history keeps it: without its timestamp.
Hist(rec) == [f \in DOMAIN rec \ {"age"} |-> rec[f]]
HistSeq(q) == [i \in DOMAIN q |-> Hist(q[i])]

RECURSIVE Concat(_)
Concat(ss) == IF ss = <<>> THEN <<>> ELSE Head(ss) \o Concat(Tail(ss))

RECURSIVE SumSeq(_)
SumSeq(s) == IF s = <<>> THEN 0 ELSE Head(s) + SumSeq(Tail(s))

\* -------------------------------------------------------------- Transport
\* The part of the state the Transport works on, as one value, so that a
\* handler that calls flush and enqueue several times composes them.
TState == [queue |-> queue, timer |-> timer, enqueued |-> enqueued,
           sends |-> sends, netCalls |-> netCalls, escaped |-> escaped]

SetT(t) ==
  /\ queue' = t.queue
  /\ timer' = t.timer
  /\ enqueued' = t.enqueued
  /\ sends' = t.sends
  /\ netCalls' = t.netCalls
  /\ escaped' = t.escaped

\* sendViaBeacon: one navigator.sendBeacon call, whose result bres is true,
\* false, or an exception that the try block catches; the history keeps
\* whether the call delivered.
SendViaBeacon(t, bres) ==
  [t EXCEPT !.netCalls = Append(@, [batch |-> Len(t.sends), api |-> "beacon",
                                    url |-> BuildUrl(config),
                                    headers |-> EmptyMap,
                                    outcome |-> IF BuildUrl(config).valid
                                                   /\ bres = "true"
                                                THEN "ok" ELSE "failed"])]

\* sendViaFetch: one fetch call, with keepalive; the promise settles later
\* (FetchSettle).
SendViaFetch(t) ==
  [t EXCEPT !.netCalls = Append(@, [batch |-> Len(t.sends), api |-> "fetch",
                                    url |-> config.endpoint,
                                    headers |-> FetchHeaders(config),
                                    outcome |-> "pending", keepalive |-> TRUE])]

\* Variants of Transport.flush with one step left out: the check for an empty
\* queue, the cancelling of the timer, the emptying of the queue.
Flush_NoEmptyCheck(t, vis, bres) ==
  LET t1 == [t EXCEPT !.timer = NoTimer,
                      !.queue = <<>>,
                      !.sends = Append(@, HistSeq(t.queue))]
  IN IF vis = "hidden" /\ hasBeacon THEN SendViaBeacon(t1, bres) ELSE SendViaFetch(t1)

Flush_KeepTimer(t, vis, bres) ==
  IF Len(t.queue) = 0 THEN t
  ELSE LET t1 == [t EXCEPT !.queue = <<>>,
                           !.sends = Append(@, HistSeq(t.queue))]
       IN IF vis = "hidden" /\ hasBeacon THEN SendViaBeacon(t1, bres)
          ELSE SendViaFetch(t1)

Flush_KeepQueue(t, vis, bres) ==
  IF Len(t.queue) = 0 THEN [t EXCEPT !.timer = NoTimer]
  ELSE LET t1 == [t EXCEPT !.timer = NoTimer,
                           !.sends = Append(@, HistSeq(t.queue))]
       IN IF vis = "hidden" /\ hasBeacon THEN SendViaBeacon(t1, bres)
          ELSE SendViaFetch(t1)

\* A variant of flush that takes the beacon path whenever sendBeacon exists.
Flush_BeaconIfAvailable(t, vis, bres) ==
  LET t0 == [t EXCEPT !.timer = NoTimer]
  IN IF Len(t0.queue) = 0 THEN t0
     ELSE LET t1 == [t0 EXCEPT !.queue = <<>>,
                               !.sends = Append(@, HistSeq(t0.queue))]
          IN IF hasBeacon THEN SendViaBeacon(t1, bres) ELSE SendViaFetch(t1)

\* JSON.stringify({ events }) returns: no record carries properties it
\* throws on (a circular structure, a BigInt).
Serializable(q) ==
  \A i \in DOMAIN q : "properties" \in DOMAIN q[i] => q[i].properties # "cyclic"

\* Transport.flush, called with the visibility state `vis`.  Nothing in
\* flush or in its callers catches what JSON.stringify throws.
Flush(t, vis, bres) ==
  LET t0 == [t EXCEPT !.timer = NoTimer]            \* clearTimeout; timer = null
  IN IF Len(t0.queue) = 0 THEN t0                   \* empty queue: return
     ELSE IF ~Serializable(t0.queue)                \* events = queue.splice(0)
          THEN [t0 EXCEPT !.queue = <<>>, !.escaped = TRUE]
          ELSE LET t1 == [t0 EXCEPT !.queue = <<>>,
                                    !.sends = Append(@, HistSeq(t0.queue))]
               IN IF vis = "hidden" /\ hasBeacon
                  THEN SendViaBeacon(t1, bres)
                  ELSE SendViaFetch(t1)

\* A variant of scheduleFlush that restarts a pending timer.
ScheduleFlush_Rearm(t) == [t EXCEPT !.timer = FlushInterval]

\* Transport.scheduleFlush
ScheduleFlush(t) ==
  IF t.timer # NoTimer THEN t
  ELSE [t EXCEPT !.timer = FlushInterval]

\* A variant of enqueue that puts the record at the front of the queue.
Enqueue_Prepend(t, rec, vis, bres) ==
  LET t1 == [t EXCEPT !.queue = <<rec>> \o @, !.enqueued = Append(@, Hist(rec))]
  IN IF Len(t1.queue) >= config.batchSize
     THEN Flush(t1, vis, bres)
     ELSE ScheduleFlush(t1)

\* A variant of enqueue that arms no timer below the threshold.
Enqueue_NoSchedule(t, rec, vis, bres) ==
  LET t1 == [t EXCEPT !.queue = Append(@, rec), !.enqueued = Append(@, Hist(rec))]
  IN IF Len(t1.queue) >= config.batchSize
     THEN Flush(t1, vis, bres)
     ELSE t1

\* A variant of enqueue that flushes only above the threshold.
Enqueue_Above(t, rec, vis, bres) ==
  LET t1 == [t EXCEPT !.queue = Append(@, rec), !.enqueued = Append(@, Hist(rec))]
  IN IF Len(t1.queue) > config.batchSize
     THEN Flush(t1, vis, bres)
     ELSE ScheduleFlush(t1)

\* Transport.enqueue
Enqueue(t, rec, vis, bres) ==
  LET t1 == [t EXCEPT !.queue = Append(@, rec), !.enqueued = Append(@, Hist(rec))]
  IN IF Len(t1.queue) >= config.batchSize
     THEN Flush(t1, vis, bres)
     ELSE ScheduleFlush(t1)

\* ---------------------------------------------------------------- Tracker
\* getBaseFields plus the fields of the variant.  age is the time since the
\* record's timestamp; origin is history: the number of the history
\* notification that led to the record (0: none).
MkRec(t, type, name, value, origin) ==
  [id |-> Len(t.enqueued) + 1, type |-> type, age |-> 0, pathname |-> pathname,
   name |-> name, value |-> value, origin |-> origin]

\* The id a collector draws with generateId when collectWebVitals sets it
\* up: one per collector, each different from the others.
MetricId(name) == <<"id", name>>

\* The record of a vital report: the metric's fields and the collector's id
VitalRec(t, name, value) ==
  MkRec(t, "webvital", name, value, 0) @@ [metric_id |-> MetricId(name)]

\* Tracker.trackPageView, past its `initialized` guard: the Transport part.
\* (The caller also sets lastPathname to the current path.)
PageViewT(t, origin, vis, bres) ==
  Enqueue(t, MkRec(t, "pageview", "", 0, origin), vis, bres)

HistoryPatched == initialized /\ Truthy(config.autoPageViews)
\* A variant in which init sets up error tracking whatever autoErrors says.
ErrorsInstalled_Always == initialized

ErrorsInstalled == initialized /\ Truthy(config.autoErrors)

\* truncate, on the length of the string
Truncate(len, maxLength) ==
  IF len <= maxLength THEN len ELSE maxLength + EllipsisLen

\* The Error record of setupErrorTracking, for a message of msgLen characters
\* and a stack of stackLen characters (0: no stack); message and stack are
\* kept as their lengths.
ErrorRec(t, msgLen, stackLen) ==
  IF stackLen = 0
  THEN MkRec(t, "error", "", 0, 0) @@ [message |-> Truncate(msgLen, MessageLimit)]
  ELSE MkRec(t, "error", "", 0, 0)
         @@ [message |-> Truncate(msgLen, MessageLimit),
             stack |-> Truncate(stackLen, StackLimit)]
VitalsInstalled == initialized /\ Truthy(config.autoWebVitals)

\* ------------------------------------------------------------- collectors
\* THRESHOLDS: the "good" and "needs-improvement" ceilings of each metric, in
\* ms; those of CLS (0.1 and 0.25) in thousandths.
Thresholds ==
  [LCP |-> <<2500, 4000>>, FID |-> <<100, 300>>, CLS |-> <<100, 250>>,
   FCP |-> <<1800, 3000>>, TTFB |-> <<800, 1800>>, INP |-> <<200, 500>>]

\* A variant of rate with exclusive ceilings.
Rate_Exclusive(name, value) ==
  IF name \notin DOMAIN Thresholds THEN "good"
  ELSE IF value < Thresholds[name][1] THEN "good"
  ELSE IF value < Thresholds[name][2] THEN "needs-improvement"
  ELSE "poor"

\* rate
Rate(name, value) ==
  IF name \notin DOMAIN Thresholds THEN "good"
  ELSE IF value <= Thresholds[name][1] THEN "good"
  ELSE IF value <= Thresholds[name][2] THEN "needs-improvement"
  ELSE "poor"

\* collectLCP: the observer callback, on lastValue
LCPObserve_First(lastValue, entries) ==
  IF entries # <<>> THEN entries[1] ELSE lastValue

LCPObserve(lastValue, entries) ==
  IF entries # <<>> THEN entries[Len(entries)] ELSE lastValue

\* The candidates seen, latest first, after the candidate v / the list entries
Note(seen, v) == <<v>> \o SelectSeq(seen, LAMBDA x : x # v)

RECURSIVE NoteAll(_, _)
NoteAll(seen, entries) ==
  IF entries = <<>> THEN seen ELSE NoteAll(Note(seen, Head(entries)), Tail(entries))

\* collectLCP: report
LCPReport(t, vis, bres) ==
  IF lcpValue > 0
  THEN Enqueue(t, VitalRec(t, "LCP", lcpValue), vis, bres)
  ELSE t

\* collectINP: report
INPReport(t, vis, bres) ==
  IF inpMax > 0
  THEN Enqueue(t, VitalRec(t, "INP", inpMax), vis, bres)
  ELSE t

\* A variant of the CLS observer callback that closes the window at a gap of
\* exactly GapLimit.
CLSObserve_GapInclusive(c, entry) ==
  IF entry.hadRecentInput THEN c
  ELSE LET n == Len(c.sessionEntries)
           close == /\ n > 0
                    /\ \/ entry.startTime - c.sessionEntries[n].startTime >= GapLimit
                       \/ entry.startTime - c.sessionEntries[1].startTime > SpanLimit
           c1 == IF close
                 THEN [clsValue |-> IF c.sessionValue > c.clsValue
                                    THEN c.sessionValue ELSE c.clsValue,
                       sessionValue |-> 0, sessionEntries |-> <<>>]
                 ELSE c
       IN [c1 EXCEPT !.sessionEntries = Append(@, entry),
                     !.sessionValue = @ + entry.value]

\* collectCLS: the observer callback, for one entry
CLSObserve(c, entry) ==
  IF entry.hadRecentInput THEN c
  ELSE LET n == Len(c.sessionEntries)
           close == /\ n > 0
                    /\ \/ entry.startTime - c.sessionEntries[n].startTime > GapLimit
                       \/ entry.startTime - c.sessionEntries[1].startTime > SpanLimit
           c1 == IF close
                 THEN [clsValue |-> IF c.sessionValue > c.clsValue
                                    THEN c.sessionValue ELSE c.clsValue,
                       sessionValue |-> 0, sessionEntries |-> <<>>]
                 ELSE c
       IN [c1 EXCEPT !.sessionEntries = Append(@, entry),
                     !.sessionValue = @ + entry.value]

\* collectCLS: report, the part that updates the collector
CLSFinalize(c) ==
  IF c.sessionValue > c.clsValue THEN [c EXCEPT !.clsValue = c.sessionValue] ELSE c

\* collectCLS: report, the part that emits (c is the finalized collector)
CLSReport(t, c, vis, bres) ==
  IF c.clsValue > 0
  THEN Enqueue(t, VitalRec(t, "CLS", c.clsValue), vis, bres)
  ELSE t

\* The three report closures in the order collectWebVitals registered them.
VitalReports(t, vis, bres) ==
  IF VitalsInstalled
  THEN INPReport(CLSReport(LCPReport(t, vis, bres), CLSFinalize(cls), vis, bres),
                 vis, bres)
  ELSE t

\* ------------------------------------------------------------------- Init
\* The state after `new Tracker(config)`: the Transport exists and has
\* registered its visibilitychange and pagehide listeners; init() has not run.
Configs == {Construct([endpoint |-> Endpoint, batchSize |-> b]) : b \in 1..MaxBatchSize}

LCPValues == {1200}
PageShifts == {[startTime |-> 400, value |-> ShiftValue, hadRecentInput |-> FALSE]}
INPEntries == {[duration |-> 80, processingStart |-> 10],
               [duration |-> 250, processingStart |-> 0]}

NoRating == [name |-> "", value |-> 0, rating |-> ""]

CLSInit == [clsValue |-> 0, sessionValue |-> 0, sessionEntries |-> <<>>]

\* Configurations whose batchSize is at, and above, what the endpoint takes.
LargeConfigs ==
  {Construct([endpoint |-> Endpoint, batchSize |-> b]) : b \in {RequestLimit, RequestLimit + 1}}

\* The dashboard's data before any response: all counts zero, all lists
\* empty; it belongs to no selection.
EMPTY_DATA == [of |-> <<>>]

\* What setData receives from the six queries made for a selection.
DataOf(sel) == [of |-> sel]

\* Everything but the configuration, the browser's settings and the
\* visibility of the document.
Start ==
  /\ pathname = "/"
  /\ initialized = FALSE
  /\ installs = 0
  /\ lastPathname = ""
  /\ routeTimers = <<>>
  /\ queue = <<>>
  /\ timer = NoTimer
  /\ escaped = FALSE
  /\ lcpValue = 0
  /\ inpMax = 0
  /\ cls = CLSInit
  /\ enqueued = <<>>
  /\ sends = <<>>
  /\ netCalls = <<>>
  /\ notifs = <<>>
  /\ shifts = <<>>
  /\ rated = NoRating
  /\ served = <<>>
  /\ lcpSeen = <<>>
  /\ vitalRows = EmptyMap
  /\ selection = <<"site1", "24h">>
  /\ data = EMPTY_DATA
  /\ loading = TRUE
  /\ error = "null"
  /\ inflight = {}
  /\ started = 0
  /\ lastCall = "new"

Init ==
  /\ config \in Configs
  /\ dnt \in BOOLEAN
  /\ hasBeacon \in BOOLEAN
  /\ visibilityState = "visible"
  /\ inBrowser = TRUE
  /\ Start

\* Pages loaded in the foreground or in a background tab, with a large
\* batchSize.
InitIngest ==
  /\ config \in LargeConfigs
  /\ dnt = FALSE
  /\ hasBeacon \in BOOLEAN
  /\ visibilityState \in {"visible", "hidden"}
  /\ inBrowser = TRUE
  /\ Start

\* ---------------------------------------------------------------- actions
browserVars == <<config, dnt, hasBeacon, inBrowser>>
transportVars == <<queue, timer, enqueued, sends, netCalls, escaped>>
auxVars == <<rated, served, lcpSeen, vitalRows, selection, data, loading, error, inflight, started>>
collectorVars == <<lcpValue, inpMax, cls, shifts>>
hookVars == <<selection, data, loading, error, inflight, started>>
routeVars == <<pathname, routeTimers, notifs>>

\* A variant of init that does not look at Do-Not-Track.
TrackerInit_IgnoreDNT ==
  /\ lastCall' = "init"
  /\ UNCHANGED <<browserVars, auxVars, visibilityState, collectorVars, routeVars>>
  /\ IF ~inBrowser \/ initialized
     THEN UNCHANGED <<initialized, installs, lastPathname, transportVars>>
     ELSE /\ initialized' = TRUE
          /\ installs' = installs + 1
          /\ IF Truthy(config.autoPageViews)
             THEN /\ Len(enqueued) < MaxRecords
                  /\ lastPathname' = pathname
                  /\ \E bres \in BeaconResults :
                       SetT(PageViewT(TState, 0, visibilityState, bres))
             ELSE UNCHANGED <<lastPathname, transportVars>>

\* A variant of init without the `initialized` return.
TrackerInit_Reinit ==
  /\ lastCall' = "init"
  /\ UNCHANGED <<browserVars, auxVars, visibilityState, collectorVars, routeVars>>
  /\ IF ~inBrowser \/ (Truthy(config.respectDNT) /\ dnt)
     THEN UNCHANGED <<initialized, installs, lastPathname, transportVars>>
     ELSE /\ initialized' = TRUE
          /\ installs' = installs + 1
          /\ IF Truthy(config.autoPageViews)
             THEN /\ Len(enqueued) < MaxRecords
                  /\ lastPathname' = pathname
                  /\ \E bres \in BeaconResults :
                       SetT(PageViewT(TState, 0, visibilityState, bres))
             ELSE UNCHANGED <<lastPathname, transportVars>>

\* Tracker.init
TrackerInit ==
  /\ lastCall' = "init"
  /\ UNCHANGED <<browserVars, auxVars, visibilityState, collectorVars, routeVars>>
  /\ IF ~inBrowser \/ initialized \/ (Truthy(config.respectDNT) /\ dnt)
     THEN UNCHANGED <<initialized, installs, lastPathname, transportVars>>
     ELSE /\ initialized' = TRUE
          /\ installs' = installs + 1
          /\ IF Truthy(config.autoPageViews)
             THEN /\ Len(enqueued) < MaxRecords
                  /\ lastPathname' = pathname
                  /\ \E bres \in BeaconResults :
                       SetT(PageViewT(TState, 0, visibilityState, bres))
             ELSE UNCHANGED <<lastPathname, transportVars>>

\* Tracker.trackPageView, called by the page
TrackPageView ==
  /\ lastCall' = "trackPageView"
  /\ UNCHANGED <<browserVars, auxVars, visibilityState, collectorVars, routeVars,
                 initialized, installs>>
  /\ IF ~initialized
     THEN UNCHANGED <<lastPathname, transportVars>>
     ELSE /\ Len(enqueued) < MaxRecords
          /\ lastPathname' = pathname
          /\ \E bres \in BeaconResults :
               SetT(PageViewT(TState, 0, visibilityState, bres))

\* A variant of trackEvent without the `initialized` return.
TrackEventCall_Unguarded(props, cap) ==
  /\ lastCall' = "trackEvent"
  /\ UNCHANGED <<browserVars, auxVars, visibilityState, collectorVars, routeVars,
                 initialized, installs, lastPathname>>
  /\ Len(enqueued) < cap
  /\ \E bres \in BeaconResults :
       SetT(Enqueue(TState,
                    MkRec(TState, "custom", "event", 0, 0)
                      @@ [properties |-> props],
                    visibilityState, bres))

\* Tracker.trackEvent(name, properties), in a behaviour of at most cap records
TrackEventCall(props, cap) ==
  /\ lastCall' = "trackEvent"
  /\ UNCHANGED <<browserVars, auxVars, visibilityState, collectorVars, routeVars,
                 initialized, installs, lastPathname>>
  /\ IF ~initialized
     THEN UNCHANGED transportVars
     ELSE /\ Len(enqueued) < cap
          /\ \E bres \in BeaconResults :
               SetT(Enqueue(TState,
                            MkRec(TState, "custom", "event", 0, 0)
                              @@ [properties |-> props],
                            visibilityState, bres))

\* Tracker.trackEvent with properties of the declared type
TrackEvent == TrackEventCall("plain", MaxRecords)

\* Tracker.flush
ManualFlush ==
  /\ lastCall' = IF lastCall \in {"flush", "flush-again"} THEN "flush-again"
                 ELSE "flush"
  /\ UNCHANGED <<browserVars, auxVars, visibilityState, collectorVars, routeVars,
                 initialized, installs, lastPathname>>
  /\ \E bres \in BeaconResults :
       SetT(Flush(TState, visibilityState, bres))

\* The callback scheduleFlush passed to setTimeout.
TimerFire ==
  /\ timer # NoTimer
  /\ timer = 0
  /\ lastCall' = "timer"
  /\ UNCHANGED <<browserVars, auxVars, visibilityState, collectorVars, routeVars,
                 initialized, installs, lastPathname>>
  /\ \E bres \in BeaconResults :
       SetT(Flush([TState EXCEPT !.timer = NoTimer], visibilityState, bres))

\* document 'visibilitychange': the Transport's listener, then the LCP, CLS
\* and INP listeners; each acts only when the page has become hidden.
VisibilityChange ==
  LET vis == IF visibilityState = "visible" THEN "hidden" ELSE "visible"
  IN /\ visibilityState' = vis
     /\ UNCHANGED <<browserVars, auxVars, routeVars, initialized, installs, lastPathname,
                    lcpValue, inpMax, shifts>>
     /\ IF vis = "hidden"
        THEN /\ lastCall' = "hidden"
             /\ cls' = IF VitalsInstalled THEN CLSFinalize(cls) ELSE cls
             /\ \E bres \in BeaconResults :
                  LET t == VitalReports(Flush(TState, vis, bres), vis, bres)
                  IN Len(t.enqueued) <= MaxRecords /\ SetT(t)
        ELSE /\ lastCall' = "other"
             /\ UNCHANGED <<cls, transportVars>>

\* window 'pagehide': the Transport's listener, then the LCP, CLS and INP
\* report closures.
PageHide ==
  /\ lastCall' = "pagehide"
  /\ UNCHANGED <<browserVars, auxVars, visibilityState, routeVars, initialized, installs,
                 lastPathname, lcpValue, inpMax, shifts>>
  /\ cls' = IF VitalsInstalled THEN CLSFinalize(cls) ELSE cls
  /\ \E bres \in BeaconResults :
       LET t == VitalReports(Flush(TState, visibilityState, bres),
                             visibilityState, bres)
       IN Len(t.enqueued) <= MaxRecords /\ SetT(t)

\* Tracker.onRouteChange
OnRouteChange(p) ==
  /\ notifs' = Append(notifs, p)
  /\ routeTimers' =
       IF p # lastPathname
       THEN Append(routeTimers, [due |-> RouteChangeDelay,
                                 origin |-> Len(notifs) + 1])
       ELSE routeTimers

\* history.pushState / history.replaceState to path p, or a popstate after
\* the browser moved to path p: the path changes, then the hook (if init
\* installed it) runs onRouteChange.
RouteChange(p) ==
  /\ Len(notifs) < MaxNotifs
  /\ lastCall' = "other"
  /\ pathname' = p
  /\ UNCHANGED <<browserVars, auxVars, visibilityState, collectorVars, initialized, installs,
                 lastPathname, transportVars>>
  /\ IF HistoryPatched THEN OnRouteChange(p) ELSE UNCHANGED <<notifs, routeTimers>>

\* The callback onRouteChange passed to setTimeout: trackPageView().
RouteTimerFire ==
  /\ routeTimers # <<>>
  /\ Head(routeTimers).due = 0
  /\ Len(enqueued) < MaxRecords
  /\ lastCall' = "routeTimer"
  /\ routeTimers' = Tail(routeTimers)
  /\ lastPathname' = pathname
  /\ UNCHANGED <<browserVars, auxVars, visibilityState, collectorVars, initialized, installs,
                 pathname, notifs>>
  /\ \E bres \in BeaconResults :
       SetT(PageViewT(TState, Head(routeTimers).origin, visibilityState, bres))

\* collectLCP: the observer callback, for the list `entries` of start times
ObserveLCPList(entries) ==
  /\ VitalsInstalled
  /\ lcpValue' = LCPObserve(lcpValue, entries)
  /\ lcpSeen' = NoteAll(lcpSeen, entries)
  /\ lastCall' = "other"
  /\ UNCHANGED <<hookVars, vitalRows, browserVars, rated, served, visibilityState, routeVars, initialized,
                 installs, lastPathname, transportVars, inpMax, cls, shifts>>

\* collectLCP: the observer callback, for a list whose last entry starts at v
ObserveLCP(v) == ObserveLCPList(<<v>>)

\* collectFCP: the observer callback's loop over the list `entries` of paint
\* entries, on the Transport: one report per first-contentful-paint entry.
RECURSIVE FCPObserve(_, _, _, _)
FCPObserve(t, entries, vis, bres) ==
  IF entries = <<>>
  THEN t
  ELSE FCPObserve(IF Head(entries).name = "first-contentful-paint"
                  THEN Enqueue(t, VitalRec(t, "FCP", Head(entries).startTime),
                               vis, bres)
                  ELSE t,
                  Tail(entries), vis, bres)

\* collectFCP: the observer callback, for the list `entries`
ObservePaint(entries) ==
  /\ VitalsInstalled
  /\ lastCall' = "paint"
  /\ UNCHANGED <<browserVars, auxVars, visibilityState, routeVars, initialized,
                 installs, lastPathname, collectorVars>>
  /\ \E bres \in BeaconResults :
       LET t == FCPObserve(TState, entries, visibilityState, bres)
       IN Len(t.enqueued) <= MaxRecords /\ SetT(t)

\* collectINP: the observer callback, for one entry
ObserveINP(e) ==
  /\ VitalsInstalled
  /\ inpMax' = IF e.processingStart # 0 /\ e.duration > inpMax
               THEN e.duration ELSE inpMax
  /\ lastCall' = "other"
  /\ UNCHANGED <<browserVars, auxVars, visibilityState, routeVars, initialized, installs,
                 lastPathname, transportVars, lcpValue, cls, shifts>>

\* collectCLS: the observer callback, for one layout-shift entry
CLSEntry(entry) ==
  /\ cls' = CLSObserve(cls, entry)
  /\ shifts' = Append(shifts, entry)
  /\ lastCall' = "other"
  /\ UNCHANGED <<browserVars, auxVars, visibilityState, routeVars, initialized, installs,
                 lastPathname, transportVars, lcpValue, inpMax>>

\* The same, in a page whose Tracker installed the collectors.
ObserveShift(entry) == VitalsInstalled /\ CLSEntry(entry)

\* collectCLS: report, with a callback that keeps nothing
CLSReportStep ==
  /\ cls' = CLSFinalize(cls)
  /\ lastCall' = "clsReport"
  /\ UNCHANGED <<browserVars, auxVars, visibilityState, routeVars, initialized, installs,
                 lastPathname, transportVars, lcpValue, inpMax, shifts>>

\* A variant of the settling that puts the records of a failed call back at
\* the front of the queue.
FetchSettle_Requeue(j, o) ==
  /\ j \in DOMAIN netCalls
  /\ netCalls[j].api = "fetch"
  /\ netCalls[j].outcome = "pending"
  /\ netCalls' = [netCalls EXCEPT ![j].outcome = o]
  /\ queue' = IF o = "ok" THEN queue
              ELSE [k \in DOMAIN sends[netCalls[j].batch] |->
                      sends[netCalls[j].batch][k] @@ [age |-> 0]] \o queue
  /\ lastCall' = "settle"
  /\ UNCHANGED <<browserVars, auxVars, visibilityState, routeVars, initialized, installs,
                 lastPathname, collectorVars, timer, enqueued, sends, escaped>>

\* window 'error': the listener of setupErrorTracking, for an ErrorEvent whose
\* message has msgLen characters and whose error has a stack of stackLen
\* characters (0: no error object, or no stack).
ErrorEvent(msgLen, stackLen) ==
  /\ ErrorsInstalled
  /\ Len(enqueued) < MaxRecords
  /\ lastCall' = "error"
  /\ UNCHANGED <<browserVars, auxVars, visibilityState, collectorVars, routeVars,
                 initialized, installs, lastPathname>>
  /\ \E bres \in BeaconResults :
       SetT(Enqueue(TState,
                    ErrorRec(TState,
                             IF msgLen = 0 THEN UnknownErrorLen ELSE msgLen,
                             stackLen),
                    visibilityState, bres))

\* window 'unhandledrejection': the listener of setupErrorTracking, for a
\* reason that is an Error (message of msgLen characters, stack of stackLen)
\* or another value (String(reason) of msgLen characters; 0: falsy).
UnhandledRejection(isError, msgLen, stackLen) ==
  /\ ErrorsInstalled
  /\ Len(enqueued) < MaxRecords
  /\ lastCall' = "error"
  /\ UNCHANGED <<browserVars, auxVars, visibilityState, collectorVars, routeVars,
                 initialized, installs, lastPathname>>
  /\ \E bres \in BeaconResults :
       SetT(Enqueue(TState,
                    IF isError
                    THEN ErrorRec(TState, msgLen, stackLen)
                    ELSE ErrorRec(TState,
                                  IF msgLen = 0 THEN UnhandledLen ELSE msgLen, 0),
                    visibilityState, bres))

\* One call of rate, as the report closures make it.
RateCall(name, value) ==
  /\ rated' = [name |-> name, value |-> value, rating |-> Rate(name, value)]
  /\ lastCall' = "rate"
  /\ UNCHANGED <<hookVars, vitalRows, lcpSeen, browserVars, served, visibilityState, routeVars, initialized,
                 installs, lastPathname, transportVars, collectorVars>>

\* The promise of one fetch call settles: sendViaFetch only logs.
FetchSettle(j, o) ==
  /\ j \in DOMAIN netCalls
  /\ netCalls[j].api = "fetch"
  /\ netCalls[j].outcome = "pending"
  /\ netCalls' = [netCalls EXCEPT ![j].outcome = o]
  /\ lastCall' = "settle"
  /\ UNCHANGED <<browserVars, auxVars, visibilityState, routeVars, initialized, installs,
                 lastPathname, collectorVars, queue, timer, enqueued, sends,
                 escaped>>

\* The ingestion endpoint, for a POST whose body holds `events`; `failed` is
\* the set of tables whose insert fails. The answer is the response status
\* and the number of records stored. (The agent's records all carry type,
\* site_id and url, so none is skipped as malformed.)
TablesOf(events) == {events[i].type : i \in DOMAIN events}

Respond_NoLimit(events, failed) ==
  IF Len(events) = 0
  THEN [status |-> 400, stored |-> 0]
  ELSE [status |-> IF failed = {} THEN 200 ELSE 207,
        stored |-> Cardinality({i \in DOMAIN events : events[i].type \notin failed})]

Respond(events, failed) ==
  IF Len(events) = 0
  THEN [status |-> 400, stored |-> 0]
  ELSE IF Len(events) > RequestLimit
  THEN [status |-> 400, stored |-> 0]
  ELSE [status |-> IF failed = {} THEN 200 ELSE 207,
        stored |-> Cardinality({i \in DOMAIN events : events[i].type \notin failed})]

\* A variant of the web_vitals upsert in which the last row wins.
Upsert_Overwrite(rows, events) ==
  LET vit == {i \in DOMAIN events : events[i].type = "webvital"}
      lastOf(x) == CHOOSE i \in vit :
                     /\ events[i].metric_id = x
                     /\ \A k \in vit : events[k].metric_id = x => k <= i
  IN [x \in DOMAIN rows \cup {events[i].metric_id : i \in vit} |->
        IF \E i \in vit : events[i].metric_id = x
        THEN events[lastOf(x)].value
        ELSE rows[x]]

\* The endpoint's upsert into web_vitals with onConflict (site_id, metric_id)
\* and ignoreDuplicates, on the unique index of the table: a row whose
\* metric_id is already there is skipped.
Upsert(rows, events) ==
  LET vit == {i \in DOMAIN events : events[i].type = "webvital"}
      firstOf(x) == CHOOSE i \in vit :
                      /\ events[i].metric_id = x
                      /\ \A k \in vit : events[k].metric_id = x => i <= k
  IN [x \in DOMAIN rows \cup {events[i].metric_id : i \in vit} |->
        IF x \in DOMAIN rows
        THEN rows[x]
        ELSE events[firstOf(x)].value]

Answered(j) == \E i \in DOMAIN served : served[i].call = j

\* The endpoint handles the request of network call j: a fetch, or a beacon
\* that the browser queued.
Ingest(j) ==
  /\ j \in DOMAIN netCalls
  /\ ~Answered(j)
  /\ netCalls[j].api = "fetch" \/ netCalls[j].outcome = "ok"
  /\ \E failed \in SUBSET TablesOf(sends[netCalls[j].batch]) :
       LET events == sends[netCalls[j].batch]
           answer == Respond(events, failed)
       IN /\ served' = Append(served, [call |-> j] @@ answer)
          /\ vitalRows' = IF answer.status # 400 /\ "webvital" \notin failed
                          THEN Upsert(vitalRows, events)
                          ELSE vitalRows
  /\ lastCall' = "ingest"
  /\ UNCHANGED <<hookVars, lcpSeen, browserVars, rated, visibilityState, routeVars, initialized,
                 installs, lastPathname, transportVars, collectorVars>>

\* The response to fetch call j arrives: response.ok is status 200..299.
ResponseSettle(j) ==
  \E i \in DOMAIN served :
    /\ served[i].call = j
    /\ FetchSettle(j, IF served[i].status \in 200..299 THEN "ok" ELSE "http_error")

\* Time passes: d ms, at most TimeStep and at most up to the next deadline.
Deadlines == (IF timer = NoTimer THEN {} ELSE {timer})
             \cup {routeTimers[i].due : i \in DOMAIN routeTimers}

Elapse(d) ==
  /\ timer' = IF timer = NoTimer THEN NoTimer ELSE timer - d
  /\ routeTimers' = [i \in DOMAIN routeTimers |->
                       [routeTimers[i] EXCEPT !.due = @ - d]]
  /\ queue' = [i \in DOMAIN queue |->
                 [queue[i] EXCEPT !.age = Min(@ + d, AgeCap)]]

Advance ==
  /\ \A d \in Deadlines : d > 0
  /\ queue # <<>> \/ Deadlines # {}
  /\ LET d == IF \E e \in Deadlines : e < TimeStep
              THEN CHOOSE e \in Deadlines : \A f \in Deadlines : e <= f
              ELSE TimeStep
     IN Elapse(d)
  /\ lastCall' = "other"
  /\ UNCHANGED <<browserVars, auxVars, visibilityState, pathname, notifs, initialized, installs,
                 lastPathname, collectorVars, enqueued, sends, netCalls, escaped>>

\* -------------------------------------------------------- specifications
\* The batcher under the page's calls and lifecycle events.
Next ==
  \/ TrackerInit
  \/ TrackEvent
  \/ ManualFlush
  \/ TimerFire
  \/ VisibilityChange
  \/ PageHide
  \/ \E v \in LCPValues : ObserveLCP(v)
  \/ Advance

Spec == Init /\ [][Next]_vars

\* The batcher and the settling of its fetch calls.
NextDelivery ==
  \/ TrackerInit
  \/ TrackEvent
  \/ ManualFlush
  \/ TimerFire
  \/ VisibilityChange
  \/ \E j \in 1..MaxRecords : \E o \in FetchOutcomes : FetchSettle(j, o)
  \/ Advance

SpecDelivery == Init /\ [][NextDelivery]_vars

\* The vital collectors and the batcher under the page's lifecycle events.
NextVitals ==
  \/ TrackerInit
  \/ \E v \in LCPValues : ObserveLCP(v)
  \/ \E e \in INPEntries : ObserveINP(e)
  \/ Len(shifts) < MaxPageShifts /\ \E e \in PageShifts : ObserveShift(e)
  \/ VisibilityChange
  \/ PageHide
  \/ TimerFire
  \/ Advance

SpecVitals == Init /\ [][NextVitals]_vars

\* Automatic page views under history notifications.
NextRoutes ==
  \/ TrackerInit
  \/ TrackPageView
  \/ \E p \in Paths : RouteChange(p)
  \/ RouteTimerFire
  \/ TimerFire
  \/ Advance

SpecRoutes == Init /\ [][NextRoutes]_vars

\* Every public call and every event the agent listens to.  Without
\* Do-Not-Track the page is one configuration and the behaviour ends with
\* the MaxAgentRecords-th record.
AgentCall ==
  \/ TrackerInit
  \/ TrackPageView
  \/ TrackEvent
  \/ ManualFlush
  \/ TimerFire
  \/ VisibilityChange
  \/ PageHide
  \/ \E p \in Paths : RouteChange(p)
  \/ RouteTimerFire
  \/ \E v \in LCPValues : ObserveLCP(v)
  \/ Advance

NextAgent == (dnt \/ Len(enqueued) < MaxAgentRecords) /\ AgentCall

\* The LCP collector: lists of zero to two candidates, and the lifecycle
\* events that finalize.
LCPStarts == {900, 1200, 2600}

LCPLists ==
  {<<>>} \cup {<<a>> : a \in LCPStarts} \cup {<<a, b>> : a, b \in LCPStarts}

NextLCP ==
  \/ TrackerInit
  \/ \E es \in LCPLists : ObserveLCPList(es)
  \/ VisibilityChange
  \/ PageHide

InitLCP == Init /\ config.batchSize = MaxBatchSize /\ ~dnt /\ hasBeacon

SpecLCP == InitLCP /\ [][NextLCP]_vars

\* The FCP collector: lists of one or two paint entries, delivered any
\* number of times.
PaintEntries ==
  {[name |-> "first-paint", startTime |-> 700],
   [name |-> "first-contentful-paint", startTime |-> 800],
   [name |-> "first-contentful-paint", startTime |-> 1900]}

PaintLists ==
  {<<a>> : a \in PaintEntries} \cup {<<a, b>> : a, b \in PaintEntries}

NextFCP ==
  \/ TrackerInit
  \/ \E es \in PaintLists : ObservePaint(es)
  \/ VisibilityChange
  \/ TimerFire
  \/ Advance

SpecFCP == InitLCP /\ [][NextFCP]_vars

\* The two delivery paths under every way of configuring the endpoint, the
\* API key and the extra headers.
Endpoints ==
  {Endpoint,
   [absolute |-> TRUE, path |-> "", params |-> [x \in {"v"} |-> "1"]],
   [absolute |-> TRUE, path |-> "/ingest", params |-> [x \in {"apikey"} |-> "old"]],
   [absolute |-> FALSE, path |-> "/ingest", params |-> EmptyMap]}

HeaderSets ==
  {[x \in {"X-Site"} |-> <<"u">>], [x \in {"Authorization"} |-> <<"u">>]}

KeyConfigs ==
  LET base(e) == [endpoint |-> e, batchSize |-> MaxBatchSize - 1]
      keys(c) == {c} \cup {c @@ [apiKey |-> k] : k \in {"", "k"}}
      hdrs(c) == {c} \cup {c @@ [headers |-> h] : h \in HeaderSets}
  IN {Construct(c) : c \in UNION {UNION {hdrs(d) : d \in keys(base(e))} :
                                    e \in Endpoints}}

InitKeys ==
  /\ config \in KeyConfigs
  /\ dnt = FALSE
  /\ hasBeacon \in BOOLEAN
  /\ visibilityState \in {"visible", "hidden"}
  /\ inBrowser = TRUE
  /\ Start

NextKeys ==
  \/ TrackerInit
  \/ TrackEvent
  \/ ManualFlush
  \/ VisibilityChange

SpecKeys == InitKeys /\ [][NextKeys]_vars

\* The three collectors with all flags left out, with one flag given as
\* false or as undefined, and with all three false; a behaviour ends with
\* the MaxFlagRecords-th record.
FlagConfigs ==
  LET base == [endpoint |-> Endpoint, batchSize |-> MaxBatchSize]
      off == FlagValues \ {"true"}
  IN {Construct(base)}
     \cup {Construct(base @@ [autoPageViews |-> v]) : v \in off}
     \cup {Construct(base @@ [autoWebVitals |-> v]) : v \in off}
     \cup {Construct(base @@ [autoErrors |-> v]) : v \in off}
     \cup {Construct(base @@ [autoPageViews |-> "false", autoWebVitals |-> "false",
                              autoErrors |-> "false"])}

InitFlags ==
  /\ config \in FlagConfigs
  /\ dnt = FALSE
  /\ hasBeacon = TRUE
  /\ visibilityState = "visible"
  /\ inBrowser = TRUE
  /\ Start

CollectorCall ==
  \/ TrackerInit
  \/ TrackPageView
  \/ \E p \in Paths : RouteChange(p)
  \/ RouteTimerFire
  \/ ErrorEvent(MessageLimit, 0)
  \/ ObservePaint(<<[name |-> "first-contentful-paint", startTime |-> 800]>>)
  \/ Advance

NextFlags == Len(enqueued) < MaxFlagRecords /\ CollectorCall

SpecFlags == InitFlags /\ [][NextFlags]_vars

\* The batcher on a page whose timers keep firing: a due flush timer runs,
\* and time passes while something is pending.
NextTimers ==
  \/ TrackerInit
  \/ TrackEvent
  \/ ManualFlush
  \/ TimerFire
  \/ Advance

SpecTimers ==
  Init /\ [][NextTimers]_vars /\ WF_vars(TimerFire) /\ WF_vars(Advance)

\* The LCP collector reporting at every finalization, and the endpoint
\* handling the requests in any order.
NextUpsert ==
  \/ TrackerInit
  \/ \E v \in LCPStarts \ LCPValues : ObserveLCP(v)
  \/ VisibilityChange
  \/ \E j \in 1..MaxRecords : Ingest(j)

SpecUpsert == InitLCP /\ [][NextUpsert]_vars

\* ------------------------------------------------- dashboard: useAnalytics
MaxFetches == 4

Sites == {"site1", "site2"}
TimeRanges == {"24h", "7d"}
Selections == Sites \X TimeRanges

agentVars == <<browserVars, transportVars, collectorVars, routeVars,
               visibilityState, initialized, installs, lastPathname,
               rated, served, lcpSeen, vitalRows>>

\* fetchData up to its await: the closure keeps the siteId and timeRange
\* of the render that created it.
FetchData(sel) ==
  /\ started < MaxFetches
  /\ started' = started + 1
  /\ loading' = TRUE
  /\ error' = "null"
  /\ inflight' = inflight \cup {[n |-> started + 1, sel |-> sel]}
  /\ UNCHANGED data

\* The effect of the first render.
Mount ==
  /\ started = 0
  /\ lastCall' = "mount"
  /\ FetchData(selection)
  /\ UNCHANGED <<agentVars, selection>>

\* A render with another siteId or timeRange: fetchData is recreated, the
\* effect's cleanup clears the interval and the effect runs again.
Select(sel) ==
  /\ started > 0
  /\ sel # selection
  /\ lastCall' = "select"
  /\ selection' = sel
  /\ FetchData(sel)
  /\ UNCHANGED agentVars

\* The 60-second interval of the current effect fires, or refresh() is
\* called.
Refresh ==
  /\ started > 0
  /\ lastCall' = "refresh"
  /\ FetchData(selection)
  /\ UNCHANGED <<agentVars, selection>>

\* The six queries of one fetchData call are answered: the rest of its try
\* block and its finally block.
Resolve(f) ==
  /\ f \in inflight
  /\ lastCall' = "resolve"
  /\ data' = DataOf(f.sel)
  /\ loading' = FALSE
  /\ inflight' = inflight \ {f}
  /\ UNCHANGED <<agentVars, selection, error, started>>

\* One of the six queries fails: the catch block and the finally block.
Reject(f) ==
  /\ f \in inflight
  /\ lastCall' = "reject"
  /\ error' = "message"
  /\ data' = EMPTY_DATA
  /\ loading' = FALSE
  /\ inflight' = inflight \ {f}
  /\ UNCHANGED <<agentVars, selection, started>>

NextHook ==
  \/ Mount
  \/ \E sel \in Selections : Select(sel)
  \/ Refresh
  \/ \E f \in inflight : Resolve(f)
  \/ \E f \in inflight : Reject(f)

SpecHook == InitLCP /\ [][NextHook]_vars

\* The public calls in any order, in a browser with or without
\* Do-Not-Track and outside a browser (where no DOM event arrives); a
\* behaviour ends with the MaxAgentRecords-th record.
InitCalls ==
  /\ config \in Configs
  /\ dnt \in BOOLEAN
  /\ hasBeacon = TRUE
  /\ inBrowser \in BOOLEAN
  /\ visibilityState = "visible"
  /\ Start

PublicCall ==
  \/ TrackerInit
  \/ TrackPageView
  \/ TrackEvent
  \/ ManualFlush
  \/ TimerFire
  \/ inBrowser /\ VisibilityChange
  \/ Advance

NextCalls == Len(enqueued) < MaxAgentRecords /\ PublicCall

SpecCalls == InitCalls /\ [][NextCalls]_vars

\* Browsers that report Do-Not-Track, and configurations that leave
\* respectDNT out or give it each of its possible values.
DNTConfigs ==
  {Construct([endpoint |-> Endpoint, batchSize |-> MaxBatchSize])} \cup
  {Construct([endpoint |-> Endpoint, batchSize |-> MaxBatchSize, respectDNT |-> v]) : v \in FlagValues}

InitDNT ==
  /\ config \in DNTConfigs
  /\ dnt = TRUE
  /\ hasBeacon \in BOOLEAN
  /\ visibilityState = "visible"
  /\ inBrowser = TRUE
  /\ Start

NextDNT == Len(enqueued) < MaxAgentRecords /\ AgentCall

SpecDNT == InitDNT /\ [][NextDNT]_vars

\* rate alone, called for every metric name (and one without thresholds)
\* with values around its ceilings.
MetricNames == {"LCP", "FCP", "CLS", "INP", "TTFB"}

RateValues(name) ==
  {0} \cup
  (IF name \in DOMAIN Thresholds
   THEN {Thresholds[name][k] + d : k \in 1..2, d \in -RateMargin..RateMargin}
   ELSE {1, 100000})

NextRate ==
  \E name \in MetricNames \cup {"FID", "XYZ"} :
    \E value \in RateValues(name) : RateCall(name, value)

SpecRate == Init /\ [][NextRate]_vars

\* The agent with a large batchSize, and the ingestion endpoint.
NextIngest ==
  \/ TrackerInit
  \/ TrackEventCall("plain", RequestLimit + IngestMargin)
  \/ \E j \in 1..MaxRecords : Ingest(j)
  \/ \E j \in 1..MaxRecords : ResponseSettle(j)

SpecIngest == InitIngest /\ [][NextIngest]_vars

\* The error collector and the batcher.
MessageLengths == {0, MessageLimit, MessageLimit + 1}
StackLengths == {0, StackLimit, StackLimit + 1}

NextErrors ==
  \/ TrackerInit
  \/ \E m \in MessageLengths : \E k \in StackLengths : ErrorEvent(m, k)
  \/ \E e \in BOOLEAN : \E m \in MessageLengths : \E k \in StackLengths :
       UnhandledRejection(e, m, k)
  \/ ManualFlush
  \/ TimerFire
  \/ Advance

\* Pages whose agent is configured with the largest batch size.
InitErrors == Init /\ config.batchSize = MaxBatchSize

SpecErrors == InitErrors /\ [][NextErrors]_vars

\* The batcher under calls of trackEvent with any properties.
NextHost ==
  \/ TrackerInit
  \/ \E props \in Properties : TrackEventCall(props, MaxRecords)
  \/ ManualFlush
  \/ TimerFire
  \/ VisibilityChange
  \/ PageHide
  \/ Advance

SpecHost == Init /\ [][NextHost]_vars

InitAgent == Init /\ (~dnt => config.batchSize = MaxBatchSize /\ hasBeacon)

SpecAgent == InitAgent /\ [][NextAgent]_vars

\* ------------------------------------------------------------- properties
Last(s) == s[Len(s)]

\* How many times record r occurs in the batches taken so far / in the queue.
Occurrences(r, s) == Cardinality({k \in DOMAIN s : s[k] = r})
InBatches(r, ss) == Occurrences(r, Concat(ss))
InQueue(r, q) == Occurrences(r, HistSeq(q))

\* A step that is one call of Transport.enqueue by a task that makes one.
EnqueueStep ==
  /\ lastCall' \in {"init", "trackEvent", "trackPageView", "routeTimer"}
  /\ Len(enqueued') = Len(enqueued) + 1

\* A step that hands one batch to delivery: one batch, one network call.
OneSendOf(batch) ==
  /\ sends' = Append(sends, batch)
  /\ Len(netCalls') = Len(netCalls) + 1
  /\ Last(netCalls').batch = Len(sends')

NoSend == sends' = sends /\ netCalls' = netCalls

\* C1: while fewer than batchSize records are queued and nothing else
\* flushes, no send happens until the timer armed by the first of them
\* fires, flushInterval after that first enqueue; the timer's task then makes
\* exactly one send, of all queued records in enqueue order.
C1_TimerArmedByFirst ==
  queue # <<>> =>
    /\ Len(queue) < config.batchSize
    /\ timer # NoTimer
    /\ timer + queue[1].age = FlushInterval

C1_Step ==
  /\ (EnqueueStep /\ Len(queue) + 1 < config.batchSize) =>
        /\ NoSend
        /\ HistSeq(queue') = Append(HistSeq(queue), Last(enqueued'))
  /\ (lastCall' = "timer" /\ timer = 0) =>
        /\ queue # <<>>
        /\ queue[1].age = FlushInterval
        /\ OneSendOf(HistSeq(queue))
        /\ queue' = <<>>
        /\ timer' = NoTimer

C1_TimerFlush == [](C1_TimerArmedByFirst) /\ [][C1_Step]_vars

C1_Witness ==
  /\ lastCall = "timer"
  /\ config.batchSize = 3
  /\ sends # <<>>
  /\ Len(Last(sends)) = 2
  /\ queue = <<>>

\* C2: an enqueue that brings the queue to batchSize makes exactly one send
\* inside that call, of all queued records in order, and leaves no timer
\* pending; an enqueue below the threshold sends nothing (batchSize 2: no
\* send after the first record, one send of both after the second).
C2_NoStaleTimer ==
  /\ timer # NoTimer => queue # <<>>
  /\ Len(queue) < config.batchSize

C2_Step ==
  EnqueueStep =>
    IF Len(queue) + 1 >= config.batchSize
    THEN /\ OneSendOf(Append(HistSeq(queue), Last(enqueued')))
         /\ queue' = <<>>
         /\ timer' = NoTimer
    ELSE NoSend

C2_SizeFlush == [](C2_NoStaleTimer) /\ [][C2_Step]_vars

C2_Witness ==
  /\ config.batchSize = 2
  /\ lastCall = "trackEvent"
  /\ Len(enqueued) = 2
  /\ sends = <<enqueued>>
  /\ Len(netCalls) = 1
  /\ queue = <<>>
  /\ timer = NoTimer

\* C4: every enqueued record is either still queued or in exactly one batch,
\* never in two and never in both; and once a flush has run, every record
\* enqueued before it is in exactly one batch.
C4_OnePlace ==
  \A i \in DOMAIN enqueued :
    InBatches(enqueued[i], sends) + InQueue(enqueued[i], queue) = 1

C4_Step ==
  lastCall' \in {"flush", "flush-again", "timer", "hidden", "pagehide"} =>
    \A i \in DOMAIN enqueued : InBatches(enqueued[i], sends') = 1

C4_AtMostOneBatch == [](C4_OnePlace) /\ [][C4_Step]_vars

C4_Witness ==
  /\ Len(sends) >= 2
  /\ queue # <<>>
  /\ lastCall = "trackEvent"

\* C5: the batches taken so far, concatenated in hand-off order, followed by
\* the queue, are exactly the records enqueued so far, in enqueue order.
C5_PrefixOrder ==
  /\ Concat(sends) \o HistSeq(queue) = enqueued
  /\ \A i \in DOMAIN enqueued : enqueued[i].id = i

C5_Witness ==
  /\ Len(sends) >= 2
  /\ Len(sends[1]) >= 2
  /\ queue # <<>>

\* C6: Tracker.flush leaves the queue empty and no timer armed; on an empty
\* queue it sends nothing; a second Tracker.flush right after one sends
\* nothing; no batch handed to delivery is empty.
C6_NoEmptyBatch == \A i \in DOMAIN sends : sends[i] # <<>>

C6_Step ==
  /\ lastCall' \in {"flush", "flush-again"} =>
        /\ queue' = <<>>
        /\ timer' = NoTimer
        /\ IF queue = <<>> THEN NoSend ELSE OneSendOf(HistSeq(queue))
  /\ lastCall' = "flush-again" => NoSend

C6_FlushIdempotent == [](C6_NoEmptyBatch) /\ [][C6_Step]_vars

C6_Witness ==
  /\ lastCall = "flush-again"
  /\ Len(sends) = 1
  /\ queue = <<>>
  /\ timer = NoTimer

\* The CLS collector alone (collectCLS given a callback that keeps nothing),
\* fed layout shifts with increasing start times.
CLSGaps == {800, 900, 1000, 1001, 3400}

NextShifts ==
  LET times == IF shifts = <<>> THEN {0}
               ELSE {Last(shifts).startTime + g :
                       g \in CLSGaps \cup (IF Len(shifts) < SpecialUpTo THEN {0} ELSE {})}
      plain == {[startTime |-> t, value |-> ShiftValue, hadRecentInput |-> FALSE] :
                  t \in times}
      other == {[startTime |-> t, value |-> 2 * ShiftValue, hadRecentInput |-> TRUE] :
                  t \in times}
  IN {e \in plain \cup (IF Len(shifts) < SpecialUpTo THEN other ELSE {}) :
        e.startTime <= MaxShiftTime}

NextCLS ==
  \/ \E e \in NextShifts : CLSEntry(e)
  \/ CLSReportStep

InitCLS == Init /\ config.batchSize = MaxBatchSize /\ ~dnt /\ hasBeacon

SpecCLS == InitCLS /\ [][NextCLS]_vars

\* C3: once every listener of a visibilitychange-to-hidden or a pagehide has
\* run, the queue is empty.
C3_NothingStranded == lastCall \in {"hidden", "pagehide"} => queue = <<>>

\* C7: every batch gets exactly one network call, over one path; whatever
\* the outcome of a call, the settling changes neither the queue nor the
\* batches nor the number of calls, and no record of a batch is in the queue
\* or in another batch.
Failures == {"failed", "http_error", "rejected"}

C7_OneAttempt ==
  /\ Len(netCalls) = Len(sends)
  /\ \A i \in DOMAIN netCalls :
       /\ netCalls[i].batch = i
       /\ netCalls[i].api \in {"beacon", "fetch"}
       /\ \A k \in DOMAIN sends[i] :
            /\ InBatches(sends[i][k], sends) = 1
            /\ InQueue(sends[i][k], queue) = 0

C7_Step ==
  lastCall' = "settle" =>
    /\ queue' = queue
    /\ timer' = timer
    /\ sends' = sends
    /\ Len(netCalls') = Len(netCalls)

C7_NoRetry == [](C7_OneAttempt) /\ [][C7_Step]_vars

C7_Witness ==
  /\ \E i \in DOMAIN netCalls : netCalls[i].outcome = "rejected"
  /\ \E i \in DOMAIN netCalls : netCalls[i].outcome = "http_error"
  /\ \E i \in DOMAIN netCalls :
       netCalls[i].api = "beacon" /\ netCalls[i].outcome = "failed"
  /\ queue # <<>>

\* C8: each of the LCP, CLS and INP collectors calls its callback at most
\* once in a page load.
VitalCount(m) ==
  Cardinality({i \in DOMAIN enqueued :
                 enqueued[i].type = "webvital" /\ enqueued[i].name = m})

C8_ReportedOnce == \A m \in {"LCP", "CLS", "INP"} : VitalCount(m) <= 1

\* C9: two consecutive history notifications that leave the same path do
\* not both produce a PageView record.
C9_OnePageViewPerPath ==
  \A n \in DOMAIN notifs :
    (n + 1 \in DOMAIN notifs /\ notifs[n] = notifs[n + 1]) =>
      ~ /\ \E i \in DOMAIN enqueued : enqueued[i].origin = n
        /\ \E i \in DOMAIN enqueued : enqueued[i].origin = n + 1

\* C10: the value the CLS collector reports is the largest sum of shift
\* values over the session windows of the shifts delivered so far, where
\* shifts with recent input are left out and a shift opens a new window
\* exactly when it starts more than 1000 ms after the previous counted shift
\* or more than 5000 ms after the first shift of the current window; for
\* equal shifts at 0, 800, 1700, 2600, 6000 ms that is four times the value.
Counted(sh) == SelectSeq(sh, LAMBDA e : ~e.hadRecentInput)

\* The index in c of the first shift of the window that holds c[i].
RECURSIVE WindowStart(_, _)
WindowStart(c, i) ==
  IF i = 1 THEN 1
  ELSE LET s == WindowStart(c, i - 1)
       IN IF \/ c[i].startTime - c[i - 1].startTime > GapLimit
             \/ c[i].startTime - c[s].startTime > SpanLimit
          THEN i ELSE s

WindowSum(c, s) ==
  SumSeq([i \in DOMAIN c |-> IF WindowStart(c, i) = s THEN c[i].value ELSE 0])

WorstWindow(sh) ==
  LET c == Counted(sh)
      sums == {WindowSum(c, s) : s \in DOMAIN c}
  IN IF c = <<>> THEN 0 ELSE CHOOSE m \in sums : \A x \in sums : x <= m

ExampleShifts ==
  [i \in 1..5 |-> [startTime |-> <<0, 800, 1700, 2600, 6000>>[i],
                   value |-> ShiftValue, hadRecentInput |-> FALSE]]

C10_CLSWorstWindow ==
  /\ CLSFinalize(cls).clsValue = WorstWindow(shifts)
  /\ lastCall = "clsReport" => cls.clsValue = WorstWindow(shifts)
  /\ shifts = ExampleShifts =>
       /\ [i \in 1..5 |-> WindowStart(shifts, i)] = <<1, 1, 1, 1, 5>>
       /\ CLSFinalize(cls).clsValue = 4 * ShiftValue

C10_Witness ==
  /\ shifts = ExampleShifts
  /\ lastCall = "clsReport"
  /\ cls.clsValue = 4 * ShiftValue

\* C11: with Do-Not-Track reported and respectDNT on, the tracker is never
\* initialized, no collector is installed, nothing is enqueued, no timer is
\* armed and no network call is made, whatever is called or happens.
C11_DNTHonored ==
  (dnt /\ Truthy(config.respectDNT)) =>
    /\ ~initialized
    /\ installs = 0
    /\ ~HistoryPatched
    /\ ~VitalsInstalled
    /\ routeTimers = <<>>
    /\ enqueued = <<>>
    /\ queue = <<>>
    /\ timer = NoTimer
    /\ sends = <<>>
    /\ netCalls = <<>>

C11_Witness ==
  /\ dnt
  /\ Truthy(config.respectDNT)
  /\ lastCall = "trackEvent"
  /\ visibilityState = "hidden"
  /\ pathname = "/a"

\* C12: init on an initialized tracker changes nothing: no record, no send,
\* the queue and the timer as they were, and no second set of listeners,
\* observers and history hooks (the setup calls have run exactly once).
C12_InstalledOnce == (initialized <=> installs = 1) /\ installs <= 1

C12_Step ==
  (lastCall' = "init" /\ initialized) =>
    UNCHANGED <<initialized, installs, lastPathname, routeTimers, queue, timer,
                enqueued, sends, netCalls, escaped, collectorVars>>

C12_SecondInitNoOp == [](C12_InstalledOnce) /\ [][C12_Step]_vars

C12_Witness ==
  /\ lastCall = "init"
  /\ initialized
  /\ Len(enqueued) >= 2
  /\ queue # <<>>
  /\ timer # NoTimer

\* C13: every batch taken by a flush goes to exactly one network call; the
\* call is a sendBeacon exactly when the document is hidden at that moment
\* and sendBeacon exists, and otherwise a fetch with keepalive.
C13_Step ==
  /\ Len(netCalls') - Len(netCalls) = Len(sends') - Len(sends)
  /\ \A i \in DOMAIN netCalls' :
       i > Len(netCalls) =>
         /\ netCalls'[i].batch = i
         /\ netCalls'[i].api =
              IF visibilityState' = "hidden" /\ hasBeacon THEN "beacon" ELSE "fetch"
         /\ netCalls'[i].api = "fetch" => netCalls'[i].keepalive

C14_NothingEscapes == ~escaped

\* C15: between tasks the batcher is Idle (queue empty, no timer) or
\* Accumulating (queue non-empty, timer armed): the timer is armed exactly
\* when the queue is non-empty; and a flush from any reachable state, on any
\* path, leaves it Idle.
C15_IdleOrAccumulating ==
  /\ (timer # NoTimer) <=> (queue # <<>>)
  /\ \A vis \in {"visible", "hidden"} : \A bres \in BeaconResults :
       /\ Flush(TState, vis, bres).queue = <<>>
       /\ Flush(TState, vis, bres).timer = NoTimer

C15_Witness ==
  /\ sends # <<>>
  /\ Len(queue) = 2
  /\ timer > 0
  /\ timer < FlushInterval
  /\ lastCall = "trackEvent"

\* C16: for LCP, FCP, CLS, INP and TTFB with ceilings (t1, t2), rate gives
\* good exactly for v <= t1, needs-improvement exactly for t1 < v <= t2 and
\* poor exactly for v > t2; v = t1 is good and v = t2 is needs-improvement.
C16_RatingBoundaries ==
  rated.name \in MetricNames =>
    LET t1 == Thresholds[rated.name][1]
        t2 == Thresholds[rated.name][2]
        v == rated.value
    IN /\ rated.rating = "good" <=> v <= t1
       /\ rated.rating = "needs-improvement" <=> (t1 < v /\ v <= t2)
       /\ rated.rating = "poor" <=> v > t2
       /\ v = t1 => rated.rating = "good"
       /\ v = t2 => rated.rating = "needs-improvement"

C16_Witness ==
  /\ lastCall = "rate"
  /\ rated.name = "CLS"
  /\ rated.value = Thresholds["CLS"][2]
  /\ rated.rating = "needs-improvement"

\* C17: every Error record the error collector enqueues has a message of at
\* most MessageLimit characters and, if it has a stack, a stack of at most
\* StackLimit characters.
C17_ErrorsBounded ==
  \A i \in DOMAIN enqueued :
    enqueued[i].type = "error" =>
      /\ enqueued[i].message <= MessageLimit
      /\ "stack" \in DOMAIN enqueued[i] => enqueued[i].stack <= StackLimit

\* C18: with a batchSize at or above the endpoint's limit, a request of more
\* than RequestLimit records is answered with status 400 and none of its
\* records is stored; the agent makes one call per batch, and when the answer
\* arrives it changes neither the queue, the timer, the batches nor the calls,
\* and lets nothing escape to the page.
BodyOf(i) == sends[netCalls[served[i].call].batch]

C18_Rejected ==
  /\ \A i \in DOMAIN served :
       Len(BodyOf(i)) > RequestLimit =>
         served[i].status = 400 /\ served[i].stored = 0
  /\ Len(netCalls) = Len(sends)
  /\ ~escaped

C18_SettleStep ==
  lastCall' = "settle" =>
    /\ queue' = queue
    /\ timer' = timer
    /\ sends' = sends
    /\ enqueued' = enqueued
    /\ Len(netCalls') = Len(netCalls)
    /\ escaped' = escaped

C18_NeverSilentlyAccepted == [](C18_Rejected) /\ [][C18_SettleStep]_vars

C18_Witness ==
  /\ config.batchSize > RequestLimit
  /\ \E i \in DOMAIN served :
       /\ Len(BodyOf(i)) > RequestLimit
       /\ served[i].status = 400
       /\ netCalls[served[i].call].api = "fetch"
       /\ netCalls[served[i].call].outcome = "http_error"

\* C19: a PageView record produced by automatic tracking after a history
\* notification never carries the path of the PageView record before it.
PageViewBefore(i) ==
  {j \in 1..(i - 1) :
     /\ enqueued[j].type = "pageview"
     /\ \A k \in (j + 1)..(i - 1) : enqueued[k].type # "pageview"}

C19_DeferredPathDiffers ==
  \A i \in DOMAIN enqueued :
    (enqueued[i].type = "pageview" /\ enqueued[i].origin > 0) =>
      \A j \in PageViewBefore(i) : enqueued[j].pathname # enqueued[i].pathname

\* C20: when sendBeacon exists, every network call made while the pagehide
\* listeners run is a sendBeacon call.
C20_Step ==
  (lastCall' = "pagehide" /\ hasBeacon) =>
    \A i \in DOMAIN netCalls' :
      i > Len(netCalls) => netCalls'[i].api = "beacon"

C20_PageHideUsesBeacon == [][C20_Step]_vars

\* C21: with Do-Not-Track reported, a tracker whose respectDNT is anything
\* but false (left out, true, or given as undefined) is never initialized
\* and installs and enqueues nothing.
C21_DefaultRespectsDNT ==
  (dnt /\ config.respectDNT # "false") =>
    /\ ~initialized
    /\ installs = 0
    /\ enqueued = <<>>

\* C22: each time the LCP collector finalizes (the document becomes hidden,
\* or pagehide), it emits one LCP record if a candidate was observed before
\* and none otherwise, and the record's value is the start time of the
\* candidate observed last.
NewLCP(old, new) ==
  {i \in DOMAIN new :
     i > Len(old) /\ new[i].type = "webvital" /\ new[i].name = "LCP"}

C22_Step ==
  (lastCall' \in {"hidden", "pagehide"} /\ VitalsInstalled) =>
    /\ Cardinality(NewLCP(enqueued, enqueued')) = IF lcpSeen = <<>> THEN 0 ELSE 1
    /\ \A i \in NewLCP(enqueued, enqueued') : enqueued'[i].value = Head(lcpSeen)

C22_LCPLastCandidate == [][C22_Step]_vars

C22_Witness ==
  /\ lastCall = "hidden"
  /\ Len(lcpSeen) >= 2
  /\ Head(lcpSeen) < lcpSeen[2]
  /\ enqueued # <<>>
  /\ Last(enqueued).name = "LCP"
  /\ Last(enqueued).value = Head(lcpSeen)

\* C23: the FCP collector reports at most once in a page load.
C23_FCPOnce == VitalCount("FCP") <= 1

\* C24: a beacon call that reaches sendBeacon targets the endpoint with,
\* when an API key is configured, the query parameter apikey set to the key
\* and its other parameters as they were, and carries no header; a fetch
\* call targets the endpoint as configured and carries, when a key is
\* configured, Authorization: Bearer <key> and apikey: <key>, together with
\* every user-supplied header of another name; without a key the beacon
\* URL has the endpoint's parameters only and the fetch headers are the
\* user-supplied ones and the content type.
C24_Beacon(c) ==
  LET e == config.endpoint
      key == ApiKey(config)
  IN c.url.valid =>
       /\ c.headers = EmptyMap
       /\ c.url.path = IF e.path = "" THEN "/" ELSE e.path
       /\ \A x \in DOMAIN e.params \ {"apikey"} :
            x \in DOMAIN c.url.params /\ c.url.params[x] = e.params[x]
       /\ IF KeySet(key)
          THEN /\ DOMAIN c.url.params = DOMAIN e.params \cup {"apikey"}
               /\ c.url.params["apikey"] = key
          ELSE c.url.params = e.params

C24_Fetch(c) ==
  LET key == ApiKey(config)
      user == UserHeaders(config)
  IN /\ c.url = config.endpoint
     /\ IF KeySet(key)
        THEN /\ c.headers["Authorization"] = <<"Bearer", key>>
             /\ c.headers["apikey"] = <<key>>
             /\ \A h \in DOMAIN user \ {"Authorization", "apikey"} :
                  h \in DOMAIN c.headers /\ c.headers[h] = user[h]
             /\ DOMAIN c.headers =
                  DOMAIN user \cup {"Content-Type", "Authorization", "apikey"}
        ELSE /\ DOMAIN c.headers = DOMAIN user \cup {"Content-Type"}
             /\ \A h \in DOMAIN user : c.headers[h] = user[h]

NewOfType(type) ==
  {i \in DOMAIN enqueued' : i > Len(enqueued) /\ enqueued'[i].type = type}

C25_Off ==
  /\ ~Truthy(config.autoPageViews) => notifs = <<>> /\ routeTimers = <<>>
  /\ ~Truthy(config.autoErrors) =>
       \A i \in DOMAIN enqueued : enqueued[i].type # "error"
  /\ ~Truthy(config.autoWebVitals) =>
       \A i \in DOMAIN enqueued : enqueued[i].type # "webvital"

C25_Step ==
  /\ (~Truthy(config.autoPageViews) /\ lastCall' # "trackPageView") =>
       NewOfType("pageview") = {}
  /\ (lastCall' = "trackPageView" /\ initialized) =>
       /\ Len(enqueued') = Len(enqueued) + 1
       /\ Cardinality(NewOfType("pageview")) = 1

C25_FlagsGateOwnCollector == [](C25_Off) /\ [][C25_Step]_vars

C25_Witness ==
  /\ config.autoPageViews = "false"
  /\ Truthy(config.autoErrors)
  /\ Truthy(config.autoWebVitals)
  /\ pathname = "/a"
  /\ Len(enqueued) = 3
  /\ \E i \in DOMAIN enqueued : enqueued[i].type = "error"
  /\ \E i \in DOMAIN enqueued : enqueued[i].type = "webvital"
  /\ \E i \in DOMAIN enqueued : enqueued[i].type = "pageview"

\* C26: with a batchSize of at least 1, between tasks the queue holds fewer
\* than batchSize records, and every batch handed to delivery holds at least
\* one and at most batchSize records.
C26_BatchBounds ==
  config.batchSize >= 1 =>
    /\ Len(queue) < config.batchSize
    /\ \A i \in DOMAIN sends :
         1 <= Len(sends[i]) /\ Len(sends[i]) <= config.batchSize

C26_Witness ==
  /\ config.batchSize = 2
  /\ Len(sends) = 2
  /\ \E i \in DOMAIN sends : Len(sends[i]) = 1
  /\ \E i \in DOMAIN sends : Len(sends[i]) = 2
  /\ Len(queue) = 1
  /\ visibilityState = "hidden"

\* C27: an enqueue that finds a timer pending and does not flush leaves the
\* timer as it is; no queued record is older than flushInterval; and on a
\* page whose timers keep firing every enqueued record ends up in a batch.
Delivered(i) ==
  \E b \in DOMAIN sends : \E k \in DOMAIN sends[b] : sends[b][k].id = i

C27_AgeBound == \A i \in DOMAIN queue : queue[i].age <= FlushInterval

C27_Step ==
  (EnqueueStep /\ timer # NoTimer /\ NoSend) => timer' = timer

C27_DeliveredInTime ==
  /\ [](C27_AgeBound)
  /\ [][C27_Step]_vars
  /\ \A i \in 1..MaxRecords : (Len(enqueued) >= i) ~> Delivered(i)

C27_Witness ==
  /\ lastCall = "timer"
  /\ config.batchSize = 3
  /\ Len(sends) = 1
  /\ Len(sends[1]) = 2
  /\ Delivered(2)
  /\ queue = <<>>
  /\ visibilityState = "visible"

\* C28: all reports of one collector carry the same metric_id and reports
\* of different collectors carry different ones; when the endpoint handles
\* a request, every row already in web_vitals keeps its value, and a
\* metric_id that gets its row gets the value of the first report with that
\* id in the request.
C28_OneIdPerCollector ==
  \A i, k \in DOMAIN enqueued :
    (enqueued[i].type = "webvital" /\ enqueued[k].type = "webvital") =>
      (enqueued[i].metric_id = enqueued[k].metric_id
         <=> enqueued[i].name = enqueued[k].name)

FirstWith(events, id) ==
  LET at == {i \in DOMAIN events :
               events[i].type = "webvital" /\ events[i].metric_id = id}
  IN CHOOSE i \in at : \A k \in at : i <= k

C28_Step ==
  lastCall' = "ingest" =>
    LET events == sends[netCalls[Last(served').call].batch]
    IN /\ \A id \in DOMAIN vitalRows :
            id \in DOMAIN vitalRows' /\ vitalRows'[id] = vitalRows[id]
       /\ \A id \in DOMAIN vitalRows' \ DOMAIN vitalRows :
            /\ \E i \in DOMAIN events :
                 events[i].type = "webvital" /\ events[i].metric_id = id
            /\ vitalRows'[id] = events[FirstWith(events, id)].value

C28_FirstReportKept == [](C28_OneIdPerCollector) /\ [][C28_Step]_vars

C28_Witness ==
  /\ lastCall = "ingest"
  /\ Len(served) >= 2
  /\ Last(served).status = 200
  /\ MetricId("LCP") \in DOMAIN vitalRows
  /\ \E i \in DOMAIN BodyOf(Len(served)) :
       /\ BodyOf(Len(served))[i].name = "LCP"
       /\ BodyOf(Len(served))[i].value > vitalRows[MetricId("LCP")]

\* C29: a tracker that is not initialized has enqueued nothing, queued
\* nothing, armed no timer and sent nothing, and it stays uninitialized
\* outside a browser and under a respected Do-Not-Track; trackPageView and
\* trackEvent on such a tracker change nothing; and the init that
\* initializes it enqueues at most its own PageView record, so nothing
\* tracked before is sent afterwards.
C29_NothingHeld ==
  /\ ~initialized =>
       /\ enqueued = <<>>
       /\ queue = <<>>
       /\ timer = NoTimer
       /\ sends = <<>>
       /\ netCalls = <<>>
  /\ (~inBrowser \/ (dnt /\ Truthy(config.respectDNT))) => ~initialized

C29_Step ==
  /\ (lastCall' \in {"trackPageView", "trackEvent"} /\ ~initialized) =>
       /\ ~initialized'
       /\ queue' = queue
       /\ timer' = timer
       /\ enqueued' = enqueued
       /\ sends' = sends
       /\ netCalls' = netCalls
       /\ lastPathname' = lastPathname
       /\ routeTimers' = routeTimers
  /\ (~initialized /\ initialized') =>
       /\ lastCall' = "init"
       /\ Len(enqueued') <= 1
       /\ \A i \in DOMAIN enqueued' : enqueued'[i].type = "pageview"

C29_UninitializedDrops == [](C29_NothingHeld) /\ [][C29_Step]_vars

C29_Witness ==
  /\ ~initialized
  /\ lastCall = "trackEvent"
  /\ inBrowser
  /\ ~dnt

\* C30: once every fetch of the hook has been answered without an error,
\* the data displayed is the data of the current selection, whatever
\* order the responses came in.
C30_LatestSelectionShown ==
  (started > 0 /\ inflight = {} /\ error = "null") => data = DataOf(selection)

====
